---- MODULE Spec2Model ----
(***************************************************************************)
(* Layer synchronization engine of flamingo-front: the zustand store       *)
(* useYjsStore (src/src/store/useYjsStore.ts, lines 1-1024) as a state      *)
(* machine.  One action per store operation, socket event or timer.         *)
(* Store operations are written as state transformers over a record of the  *)
(* store (st), so that a handler calling another handler (get().xxx()) is   *)
(* function composition; an action commits the transformed record.          *)
(* Time is counted in seconds: 2000 ms = 2, 10000 ms = 10.                  *)
(***************************************************************************)
EXTENDS Integers, Sequences, FiniteSets, TLC

\* ------------------------------------------------------------------ bounds
Layers == {"L1", "L2", "L3"}
Canvases == {"c1", "c2"}
NoCanvas == "null"
\* number of connectToLayer invocations that get as far as opening a socket
MaxConns == 3
\* number of connectToCanvas invocations
MaxJobs == 2
\* number of size warnings kept in the warning list
MaxWarnings == 2
\* the drawing specification: one layer, one connection, small documents
DrawMaxConns == 1
MaxStrokes == 2
MaxPoints == 3
\* the replication specification: clients sharing one layer, strokes each draws
MaxLocal == 2
\* restore events each client handles, strokes each has drawn before the first
MaxPeerRestores == 1
MaxDrawnBefore == 1
\* the governor specification: size warnings and hiding on one layer
GovMaxConns == 2
\* the load specification: stored payloads and loadLayerDataFromJson calls
LoadMaxConns == 2
\* payloads handed to the store in one run, by either of the two routes
MaxLoads == 2
\* the reconnect specification: transport drops of one relay socket
ReconnectMaxConns == 1
MaxDrops == 2
ReconnectMaxStrokes == 1
ReconnectMaxPoints == 2
\* the restore specification: version restores on a drawn document
MaxRestores == 2
RestoreMaxStrokes == 2
RestoreMaxPoints == 2

\* useSocketStore.allData.layers.filter(l => l.canvasId === canvasId)
CanvasLayers(canvasId) == IF canvasId = "c1" THEN <<"L1", "L2">> ELSE <<"L3">>

\* ------------------------------------------------------- program constants
CONNECT_TIMEOUT == 10
SAVE_DEBOUNCE == 2
AUTO_HIDE_MB == 100

\* ------------------------------------------------------------------- state
VARIABLES
  yjsStatus,            \* "disconnected" | "connecting" | "connected" | "error"
  currentCanvasId,      \* canvas id or NoCanvas
  layerStates,          \* the session registry: layerId -> connection id
  connectingLayers,     \* layers whose activation is in progress
  pendingLayerData,     \* layerId -> brush strokes stored before the session exists
  performanceWarnings,  \* list of received size warnings
  hiddenLayers,         \* layers hidden for performance
  forceUpdate,          \* render-version counter
  token,                \* useSocketStore.token (TRUE: present)
  conns,                \* every doc/socket bundle built by connectToLayer
  jobs,                 \* running connectToCanvas coroutines
  rerenderTimers,       \* pending setTimeout(() => forceRerender())
  loaders,              \* loadLayerDataFromJson calls waiting on their 500 ms timer
  lastCall,             \* history: the handler that ran last, with its arguments
  peers,                \* the Y.Doc of the same layer in each collaborating client
  wire                  \* document updates in flight, per receiver and transport

vars == <<yjsStatus, currentCanvasId, layerStates, connectingLayers,
          pendingLayerData, performanceWarnings, hiddenLayers, forceUpdate,
          token, conns, jobs, rerenderTimers, loaders, lastCall, peers, wire>>

\* --------------------------------------------------------------- map helpers
EmptyMap == [x \in {} |-> 0]
MapSet(m, k, v) == [x \in DOMAIN m \cup {k} |-> IF x = k THEN v ELSE m[x]]
MapDelete(m, k) == [x \in DOMAIN m \ {k} |-> m[x]]
Range(f) == {f[x] : x \in DOMAIN f}

\* The store as one record (zustand get()).
Cur ==
  [yjsStatus |-> yjsStatus, currentCanvasId |-> currentCanvasId,
   layerStates |-> layerStates, connectingLayers |-> connectingLayers,
   pendingLayerData |-> pendingLayerData,
   performanceWarnings |-> performanceWarnings, hiddenLayers |-> hiddenLayers,
   forceUpdate |-> forceUpdate, token |-> token, conns |-> conns, jobs |-> jobs,
   rerenderTimers |-> rerenderTimers, loaders |-> loaders]

\* zustand set(): the transformed record becomes the store.
Commit(st) ==
  /\ yjsStatus' = st.yjsStatus
  /\ currentCanvasId' = st.currentCanvasId
  /\ layerStates' = st.layerStates
  /\ connectingLayers' = st.connectingLayers
  /\ pendingLayerData' = st.pendingLayerData
  /\ performanceWarnings' = st.performanceWarnings
  /\ hiddenLayers' = st.hiddenLayers
  /\ forceUpdate' = st.forceUpdate
  /\ token' = st.token
  /\ conns' = st.conns
  /\ jobs' = st.jobs
  /\ rerenderTimers' = st.rerenderTimers
  /\ loaders' = st.loaders

Init ==
  /\ yjsStatus = "disconnected"
  /\ currentCanvasId = NoCanvas
  /\ layerStates = EmptyMap
  /\ connectingLayers = {}
  /\ pendingLayerData = EmptyMap
  /\ performanceWarnings = <<>>
  /\ hiddenLayers = {}
  /\ forceUpdate = 0
  /\ token = FALSE
  /\ conns = <<>>
  /\ jobs = <<>>
  /\ rerenderTimers = 0
  /\ loaders = <<>>
  /\ lastCall = [op |-> "init"]
  /\ peers = [r \in {1, 2} |-> [items |-> <<>>, pending |-> {}, clock |-> 0,
                                 deleted |-> {}, restores |-> 0]]
  /\ wire = {}

\* ------------------------------------------------------------ connections
\* What one invocation of connectToLayer builds before its first await: the
\* Y.Doc, the namespace socket and the promise with its 10 s timeout; the
\* snapshot callback later adds the providers and the debouncer.
NewConn(layerId, capturedLayerStates) ==
  [layerId |-> layerId,
   captured |-> capturedLayerStates, \* const { layerStates } = get() at call time
   promise |-> "pending",            \* "pending" | "resolved" | "rejected"
   sock |-> "opening",               \* "opening" | "connected" | "closed"
   listeners |-> 0,                  \* registrations of the two server-event handlers
   awaiting |-> FALSE,               \* request-layer-data sent, callback not yet run
   requests |-> 0,                   \* request-layer-data emits
   timer |-> CONNECT_TIMEOUT,        \* seconds until the timeout rejects; -1: fired
   ydoc |-> "live",                  \* "live" | "destroyed"
   providers |-> "none",             \* "none" | "live" | "destroyed"
   built |-> 0,                      \* times the providers and the debouncer were constructed
   strokes |-> <<>>,                 \* doc.getArray("strokes") as JSON
   drawingStroke |-> <<>>,           \* awareness local field; <<>> is null
   saveTimer |-> -1,                 \* seconds until debouncedSave fires; -1: idle
   lastSaved |-> <<>>,               \* payload of the last save-layer-data
   saves |-> 0,                      \* history: save-layer-data emits
   loads |-> 0,                      \* history: performDataLoad runs that replaced the strokes
   replaced |-> 0,                   \* history: times a restore emptied the stroke list
   sinceUpdate |-> 0,                \* history: seconds since the last doc update
   burstSaves |-> -1,                \* history: saves since the last doc update; -1: none yet
   drawn |-> <<>>,                   \* history: the points of each stroke, as the calls gave them
   emitted |-> <<>>,                 \* history: the stroke list at each update event of the
                                     \* last handler that changed the document
   foreign |-> FALSE]                \* history: strokes came from a snapshot, load or restore

ConnIds(st) == 1..Len(st.conns)

WithoutLayer(set, layerId) == {id \in set : id # layerId}

\* connectToLayer up to its first await (lines 253-291).
ConnectToLayer(st, layerId) ==
  IF st.currentCanvasId = NoCanvas THEN st
  ELSE IF layerId \in DOMAIN st.layerStates THEN st
  ELSE IF layerId \in st.connectingLayers THEN st
  ELSE LET marked == [st EXCEPT !.connectingLayers = @ \cup {layerId}]
       IN IF ~st.token THEN marked
          ELSE [marked EXCEPT
                  !.conns = Append(@, NewConn(layerId, st.layerStates))]

\* debounce(...).cancel()
DebounceCancel(c) == [c EXCEPT !.saveTimer = -1]

\* A disconnectFromLayer that leaves the debouncer alone.
DisconnectFromLayerKeepSave(st, layerId) ==
  IF layerId \notin DOMAIN st.layerStates THEN st
  ELSE LET i == st.layerStates[layerId]
           torn == [st.conns[i] EXCEPT
                      !.providers = "destroyed",
                      !.ydoc = "destroyed",
                      !.sock = "closed",
                      !.awaiting = FALSE]
       IN [st EXCEPT !.conns[i] = torn,
                     !.layerStates = MapDelete(st.layerStates, layerId)]

\* disconnectFromLayer (lines 687-707).
DisconnectFromLayer(st, layerId) ==
  IF layerId \notin DOMAIN st.layerStates THEN st
  ELSE LET i == st.layerStates[layerId]
           torn == [DebounceCancel(st.conns[i]) EXCEPT
                      !.providers = "destroyed",
                      !.ydoc = "destroyed",
                      !.sock = "closed",
                      !.awaiting = FALSE]
       IN [st EXCEPT !.conns[i] = torn,
                     !.layerStates = MapDelete(st.layerStates, layerId)]

\* layerStates.forEach((_, layerId) => get().disconnectFromLayer(layerId))
RECURSIVE DisconnectAll(_, _)
DisconnectAll(st, ids) ==
  IF ids = {} THEN st
  ELSE LET layerId == CHOOSE x \in ids : TRUE
       IN DisconnectAll(DisconnectFromLayer(st, layerId), ids \ {layerId})

\* disconnectFromCanvas (lines 235-248).
DisconnectFromCanvas(st) ==
  [DisconnectAll(st, DOMAIN st.layerStates) EXCEPT
     !.yjsStatus = "disconnected",
     !.currentCanvasId = NoCanvas,
     !.layerStates = EmptyMap]

\* A connectToCanvas invocation that has returned.
DoneJob == [canvasId |-> NoCanvas, idx |-> 0, waiting |-> 0, done |-> TRUE]

\* The for-loop of connectToCanvas (lines 217-225) from job j's position on:
\* connectToLayer calls that return early are awaited within the same
\* microtask run; a call that opened a socket suspends the loop on it.
RECURSIVE RunCanvasJob(_, _)
RunCanvasJob(st, j) ==
  LET job == st.jobs[j]
      layers == CanvasLayers(job.canvasId)
  IN IF job.idx > Len(layers)
     THEN [st EXCEPT !.yjsStatus = "connected",
                     !.jobs[j] = DoneJob,
                     !.rerenderTimers = @ + 1]
     ELSE LET called == ConnectToLayer(st, layers[job.idx])
              opened == Len(called.conns) > Len(st.conns)
          IN IF opened
             THEN [called EXCEPT !.jobs[j].idx = job.idx + 1,
                                 !.jobs[j].waiting = Len(called.conns)]
             ELSE RunCanvasJob([called EXCEPT !.jobs[j].idx = job.idx + 1], j)

\* connectToCanvas (lines 196-233) up to its first suspension.
ConnectToCanvas(st, canvasId) ==
  LET cleared == DisconnectFromCanvas(st)
      started == [cleared EXCEPT
                    !.yjsStatus = "connecting",
                    !.currentCanvasId = canvasId,
                    !.jobs = Append(@, [canvasId |-> canvasId, idx |-> 1,
                                        waiting |-> 0, done |-> FALSE])]
  IN RunCanvasJob(started, Len(started.jobs))

\* The continuations that run when connection i's promise settles: the
\* connectToCanvas loop awaiting it resumes.
RECURSIVE ResumeJobs(_, _, _)
ResumeJobs(st, i, js) ==
  IF js = {} THEN st
  ELSE LET j == CHOOSE x \in js : TRUE
       IN ResumeJobs(RunCanvasJob(st, j), i, js \ {j})

Awaiters(st, i) ==
  {j \in 1..Len(st.jobs) : ~st.jobs[j].done /\ st.jobs[j].waiting = i}

\* resolve(): the await at line 291 returns, connectToLayer returns.  A settled
\* promise ignores the timeout's later reject, so its timer is dropped here.
Resolve(st, i) ==
  IF st.conns[i].promise # "pending" THEN st
  ELSE ResumeJobs([st EXCEPT !.conns[i].promise = "resolved",
                             !.conns[i].timer = -1], i, Awaiters(st, i))

\* reject(err): the catch block of lines 490-498 runs, connectToLayer returns.
Reject(st, i) ==
  IF st.conns[i].promise # "pending" THEN st
  ELSE LET caught == [st EXCEPT
                        !.conns[i].promise = "rejected",
                        !.conns[i].timer = -1,
                        !.connectingLayers =
                           WithoutLayer(st.connectingLayers, st.conns[i].layerId)]
       IN ResumeJobs(caught, i, Awaiters(st, i))


\* -------------------------------------------------------------- documents
\* A stroke as its JSON: points in order, colour, size; stamped tells whether
\* a timestamp key is present (bulk-loaded strokes carry one, drawn ones not).
\* Pressure is in tenths (5 is 0.5).
Points == {<<10, 10>>, <<20, 20>>}
DEFAULT_PRESSURE == 5
DEFAULT_SIZE == 5
DEFAULT_COLOR == "#000000"

Point(x, y, pressure) ==
  [x |-> x, y |-> y, pressure |-> pressure, stamped |-> FALSE]

\* A throttle in place of the debounce: a pending timer is not restarted.
OnDocUpdateThrottled(c) ==
  IF c.ydoc = "live" /\ c.providers # "none"
  THEN [c EXCEPT !.saveTimer = IF @ >= 0 THEN @ ELSE SAVE_DEBOUNCE,
                 !.sinceUpdate = 0, !.burstSaves = 0]
  ELSE c

\* doc.on("update", debouncedSave): one call of the debounced function per
\* update event; a destroyed doc has no observers left, and before the
\* snapshot callback no debouncer is installed.
OnDocUpdate(c) ==
  IF c.ydoc = "live" /\ c.providers # "none"
  THEN [c EXCEPT !.saveTimer = SAVE_DEBOUNCE, !.sinceUpdate = 0, !.burstSaves = 0,
                 !.emitted = Append(@, c.strokes)]
  ELSE c

\* A handler that is about to change the document of a connection: the update
\* events recorded from here on are its own.
Entering(c) == [c EXCEPT !.emitted = <<>>]

\* The debounced function (lines 425-430).
InvokeSave(c) ==
  IF c.sock = "connected"
  THEN [c EXCEPT !.lastSaved = c.strokes, !.saves = @ + 1, !.burstSaves = @ + 1]
  ELSE c

\* lodash debounce: the trailing-edge timer expiring.
DebounceExpire(c) == [InvokeSave(c) EXCEPT !.saveTimer = -1]

\* lodash debounce(...).flush(): invokes now when a call is pending.
DebounceFlush(c) ==
  IF c.saveTimer = -1 THEN c ELSE [InvokeSave(c) EXCEPT !.saveTimer = -1]

\* awareness.setLocalStateField: ignored once the local state is null, which it
\* is before the provider exists and after the provider was destroyed.
SetDrawingStroke(c, value) ==
  IF c.providers = "live" THEN [c EXCEPT !.drawingStroke = value] ELSE c

\* strokes.delete(0, strokes.length): an update event only if something went.
DeleteAllStrokes(c) ==
  IF c.strokes = <<>> THEN c ELSE OnDocUpdate([c EXCEPT !.strokes = <<>>])

\* strokes.push([stroke]) in a transaction of its own.
PushStroke(c, stroke) == OnDocUpdate([c EXCEPT !.strokes = Append(@, stroke)])

RECURSIVE PushStrokes(_, _)
PushStrokes(c, list) ==
  IF list = <<>> THEN c ELSE PushStrokes(PushStroke(c, Head(list)), Tail(list))

\* Y.applyUpdate(doc, snapshot) on the document of a connection.  The callback
\* applies it to the document it has just created, so the document then holds
\* the snapshot's strokes; strokes already in the document stay ahead of it.
YApplyUpdate(c, docUpdate) ==
  OnDocUpdate([Entering(c) EXCEPT
                 !.strokes = IF @ = <<>> THEN docUpdate.strokes ELSE @,
                 !.foreign = TRUE, !.drawn = <<>>])

\* performDataLoad, the conversion of one BrushStroke (lines 546-635).
ToYPoint(point) ==
  [x |-> point.x, y |-> point.y,
   pressure |-> IF point.pressure = 0 THEN DEFAULT_PRESSURE ELSE point.pressure,
   stamped |-> TRUE]

ToYStroke(brushStroke) ==
  [points |-> [k \in DOMAIN brushStroke.points |-> ToYPoint(brushStroke.points[k])],
   color |-> IF brushStroke.color = "" THEN DEFAULT_COLOR ELSE brushStroke.color,
   size |-> IF brushStroke.radius = 0 THEN DEFAULT_SIZE ELSE brushStroke.radius,
   stamped |-> TRUE]

\* forceRerender (lines 935-937).
ForceRerender(st) == [st EXCEPT !.forceUpdate = @ + 1]

\* performDataLoad (lines 522-661) on the bundle of connection i.
PerformDataLoad(st, i, brushStrokes) ==
  IF brushStrokes = <<>> THEN st
  ELSE LET converted == [k \in DOMAIN brushStrokes |-> ToYStroke(brushStrokes[k])]
           loaded == [PushStrokes(DeleteAllStrokes(Entering(st.conns[i])), converted)
                        EXCEPT !.foreign = TRUE, !.drawn = <<>>, !.loads = @ + 1]
       IN [ForceRerender([st EXCEPT !.conns[i] = loaded]) EXCEPT
             !.rerenderTimers = @ + 1]

\* socket.on("connect") (lines 292-357): both server-event handlers are
\* registered and the snapshot is requested.
OnSocketConnect(st, i) ==
  [st EXCEPT !.conns[i].sock = "connected",
             !.conns[i].listeners = @ + 1,
             !.conns[i].requests = @ + 1,
             !.conns[i].awaiting = TRUE]

\* The transport of a connected relay socket drops (lines 285-288: the socket
\* is created with socket.io's default reconnection).  The acknowledgement of
\* a request in flight is lost; the client reconnects by itself, and "connect"
\* fires again when it succeeds.
OnTransportClose(st, i) ==
  [st EXCEPT !.conns[i].sock = "opening", !.conns[i].awaiting = FALSE]

\* A callback that loads the stored payload and leaves its entry in the map.
OnLayerDataKeepsPending(st, i, docUpdate) ==
  LET c == st.conns[i]
      merged == IF docUpdate.kind = "update" THEN YApplyUpdate(c, docUpdate) ELSE c
      bundle == [merged EXCEPT !.awaiting = FALSE, !.providers = "live",
                               !.built = @ + 1]
      stored == [st EXCEPT
                   !.conns[i] = bundle,
                   !.layerStates = MapSet(c.captured, c.layerId, i),
                   !.connectingLayers = WithoutLayer(st.connectingLayers, c.layerId)]
      loaded == IF c.layerId \in DOMAIN stored.pendingLayerData
                THEN PerformDataLoad(stored, i, stored.pendingLayerData[c.layerId])
                ELSE stored
  IN Resolve(loaded, i)

\* The request-layer-data callback (lines 360-479).  docUpdate.kind is "null"
\* (no snapshot or an empty buffer), "update" or "malformed" (applyUpdate
\* throws, the inner catch logs it).
OnLayerData(st, i, docUpdate) ==
  LET c == st.conns[i]
      merged == IF docUpdate.kind = "update" THEN YApplyUpdate(c, docUpdate) ELSE c
      bundle == [merged EXCEPT !.awaiting = FALSE, !.providers = "live",
                               !.built = @ + 1]
      stored == [st EXCEPT
                   !.conns[i] = bundle,
                   !.layerStates = MapSet(c.captured, c.layerId, i),
                   !.connectingLayers = WithoutLayer(st.connectingLayers, c.layerId)]
      loaded == IF c.layerId \in DOMAIN stored.pendingLayerData
                THEN [PerformDataLoad(stored, i, stored.pendingLayerData[c.layerId])
                        EXCEPT !.pendingLayerData = MapDelete(@, c.layerId)]
                ELSE stored
  IN Resolve(loaded, i)

\* storeLayerDataForLater (lines 928-933).
StoreLayerDataForLater(st, layerId, brushStrokes) ==
  [st EXCEPT !.pendingLayerData = MapSet(@, layerId, brushStrokes)]


\* tryLoadData (lines 505-516): without a session the closure re-arms its
\* 500 ms timer, with one it runs performDataLoad on it.
TryLoadData(st, layerId, brushStrokes) ==
  IF layerId \notin DOMAIN st.layerStates
  THEN [st EXCEPT !.loaders = Append(@, [layerId |-> layerId,
                                          brushStrokes |-> brushStrokes])]
  ELSE PerformDataLoad(st, st.layerStates[layerId], brushStrokes)

\* loadLayerDataFromJson (lines 503-519).
LoadLayerDataFromJson(st, layerId, brushStrokes) ==
  TryLoadData(st, layerId, brushStrokes)

\* setTimeout(tryLoadData, 500) of the k-th waiting call fires.
RetryLoadData(st, k) ==
  LET waiting == st.loaders[k]
      others == [n \in 1..(Len(st.loaders) - 1) |->
                   IF n < k THEN st.loaders[n] ELSE st.loaders[n + 1]]
  IN TryLoadData([st EXCEPT !.loaders = others], waiting.layerId,
                 waiting.brushStrokes)

\* ------------------------------------------------------------- stroke ops
\* startStroke (lines 852-880).
StartStroke(st, activeLayerId, x, y, pressure, color, size) ==
  IF activeLayerId \notin DOMAIN st.layerStates THEN st
  ELSE LET i == st.layerStates[activeLayerId]
           newStroke == [points |-> <<Point(x, y, pressure)>>, color |-> color,
                         size |-> size, stamped |-> FALSE]
           pushed == PushStroke(Entering(st.conns[i]), newStroke)
       IN [st EXCEPT !.conns[i] =
             SetDrawingStroke(pushed, <<[stroke |-> newStroke,
                                         layerId |-> activeLayerId]>>)]

\* An addPointToStroke that opens a stroke when the list is empty.
AddPointToStrokeOpensStroke(st, activeLayerId, x, y, pressure) ==
  IF activeLayerId \notin DOMAIN st.layerStates THEN st
  ELSE LET i == st.layerStates[activeLayerId]
           c == st.conns[i]
           last == Len(c.strokes)
       IN IF last = 0
          THEN [st EXCEPT !.conns[i] =
                  PushStroke(c, [points |-> <<Point(x, y, pressure)>>,
                                 color |-> DEFAULT_COLOR, size |-> DEFAULT_SIZE,
                                 stamped |-> FALSE])]
          ELSE LET currentStroke ==
                     [c.strokes[last] EXCEPT
                        !.points = Append(@, Point(x, y, pressure))]
                   pushed == OnDocUpdate([c EXCEPT !.strokes[last] = currentStroke])
               IN [st EXCEPT !.conns[i] =
                     SetDrawingStroke(pushed, <<[stroke |-> currentStroke,
                                                 layerId |-> activeLayerId]>>)]

\* An addPointToStroke that puts the new point ahead of the stroke's points.
AddPointToStrokeFront(st, activeLayerId, x, y, pressure) ==
  IF activeLayerId \notin DOMAIN st.layerStates THEN st
  ELSE LET i == st.layerStates[activeLayerId]
           c == st.conns[i]
           last == Len(c.strokes)
       IN IF last = 0 THEN st
          ELSE LET currentStroke ==
                     [c.strokes[last] EXCEPT
                        !.points = <<Point(x, y, pressure)>> \o @]
                   pushed == OnDocUpdate([c EXCEPT !.strokes[last] = currentStroke])
               IN [st EXCEPT !.conns[i] =
                     SetDrawingStroke(pushed, <<[stroke |-> currentStroke,
                                                 layerId |-> activeLayerId]>>)]

\* addPointToStroke (lines 882-905).
AddPointToStroke(st, activeLayerId, x, y, pressure) ==
  IF activeLayerId \notin DOMAIN st.layerStates THEN st
  ELSE LET i == st.layerStates[activeLayerId]
           c == st.conns[i]
           last == Len(c.strokes)
       IN IF last = 0 THEN st
          ELSE LET currentStroke ==
                     [c.strokes[last] EXCEPT
                        !.points = Append(@, Point(x, y, pressure))]
                   pushed == OnDocUpdate([Entering(c) EXCEPT
                                            !.strokes[last] = currentStroke])
               IN [st EXCEPT !.conns[i] =
                     SetDrawingStroke(pushed, <<[stroke |-> currentStroke,
                                                 layerId |-> activeLayerId]>>)]

\* An endStroke that leaves the draft strokes as they are.
EndStrokeKeepsDraft(st) == st

\* endStroke (lines 907-914).
EndStroke(st) ==
  [st EXCEPT !.conns =
     [i \in DOMAIN st.conns |->
        IF i \in Range(st.layerStates)
        THEN SetDrawingStroke(st.conns[i], <<>>)
        ELSE st.conns[i]]]

\* ---------------------------------------------------------- version restore
\* The layer-data-restored handler of connection i (lines 299-355), run once.
\* payload.kind is "null" (no data), "update" or "malformed" (applyUpdate on
\* the temporary document throws after the stroke list was emptied).
RestoreOnce(st, i, payload) ==
  LET layerId == st.conns[i].layerId
  IN IF layerId \notin DOMAIN st.layerStates \/ payload.kind = "null" THEN st
     ELSE LET k == st.layerStates[layerId]
              emptied == [DeleteAllStrokes(Entering(st.conns[k])) EXCEPT
                                                               !.replaced = @ + 1,
                                                               !.foreign = TRUE,
                                                               !.drawn = <<>>]
          IN IF payload.kind = "malformed"
             THEN [st EXCEPT !.conns[k] = emptied]
             ELSE [st EXCEPT
                     !.conns[k] = DebounceCancel(PushStrokes(emptied, payload.strokes)),
                     !.rerenderTimers = @ + 1]

\* One layer-data-restored event: every registered handler runs.
RECURSIVE OnLayerDataRestored(_, _, _, _)
OnLayerDataRestored(st, i, payload, n) ==
  IF n = 0 THEN st
  ELSE OnLayerDataRestored(RestoreOnce(st, i, payload), i, payload, n - 1)

\* ------------------------------------------------------ performance governor
\* parseFloat(warning.dataSizeMB), in hundredths of a MB; -1 stands for NaN.
ParseFloat(str) ==
  CASE str = "99.99" -> 9999
    [] str = "100" -> 10000
    [] str = "100.00" -> 10000
    [] str = "100.01" -> 10001
    [] str = "250.5" -> 25050
    [] OTHER -> -1

\* A threshold that includes 100 itself.
ExceedsAutoHideInclusive(dataSize) == dataSize # -1 /\ dataSize >= AUTO_HIDE_MB * 100

\* dataSize > 100, false for NaN
ExceedsAutoHide(dataSize) == dataSize # -1 /\ dataSize > AUTO_HIDE_MB * 100

\* handlePerformanceWarning (lines 942-971).
HandlePerformanceWarning(st, warning) ==
  LET newWarnings == Append(st.performanceWarnings, warning)
      dataSize == ParseFloat(warning.dataSizeMB)
  IN IF ExceedsAutoHide(dataSize)
     THEN DisconnectFromLayer(
            [st EXCEPT !.performanceWarnings = newWarnings,
                       !.hiddenLayers = @ \cup {warning.layerId}],
            warning.layerId)
     ELSE [st EXCEPT !.performanceWarnings = newWarnings]

\* hideLayerForPerformance (lines 973-986).
HideLayerForPerformance(st, layerId) ==
  DisconnectFromLayer([st EXCEPT !.hiddenLayers = @ \cup {layerId}], layerId)

\* showLayerForPerformance (lines 988-996).
ShowLayerForPerformance(st, layerId) ==
  [st EXCEPT !.hiddenLayers = @ \ {layerId}]

\* clearPerformanceWarnings (lines 998-1000).
ClearPerformanceWarnings(st) == [st EXCEPT !.performanceWarnings = <<>>]


\* ------------------------------------------------------------------ inputs
S1 == [points |-> <<[x |-> 10, y |-> 10, pressure |-> 5, stamped |-> FALSE]>>,
       color |-> "#ff0000", size |-> 3, stamped |-> FALSE]
B1 == [points |-> <<[x |-> 20, y |-> 10, pressure |-> 0]>>, color |-> "", radius |-> 0]

NullUpdate == [kind |-> "null", strokes |-> <<>>]
SnapshotUpdate == [kind |-> "update", strokes |-> <<S1>>]
MalformedUpdate == [kind |-> "malformed", strokes |-> <<>>]

SizeStrings == {"99.99", "100", "100.01", "250.5", "n/a"}

\* What a specification explores: the layers and canvases the callers name,
\* the payloads the server sends and the number of connections opened.
LifeLim == [layers |-> {"L1", "L2"}, canvases |-> {"c1"}, maxConns |-> MaxConns,
            updates |-> {NullUpdate}, maxStrokes |-> 0, maxPoints |-> 0,
            maxRestores |-> 0, trace |-> TRUE]
DrawLim == [layers |-> {"L3"}, canvases |-> {"c2"}, maxConns |-> DrawMaxConns,
            updates |-> {NullUpdate, SnapshotUpdate}, maxStrokes |-> MaxStrokes,
            maxPoints |-> MaxPoints, maxRestores |-> 0, trace |-> TRUE]
GovLim == [layers |-> {"L3"}, canvases |-> {"c2"}, maxConns |-> GovMaxConns,
           updates |-> {NullUpdate}, maxStrokes |-> 0, maxPoints |-> 0,
           maxRestores |-> 0, trace |-> TRUE]
LoadLim == [layers |-> {"L3"}, canvases |-> {"c2"}, maxConns |-> LoadMaxConns,
            updates |-> {NullUpdate}, maxStrokes |-> Len(<<B1>>),
            maxPoints |-> Len(B1.points), maxRestores |-> 0, trace |-> TRUE]
ReconnectLim == [layers |-> {"L3"}, canvases |-> {"c2"},
                 maxConns |-> ReconnectMaxConns,
                 updates |-> {NullUpdate}, maxStrokes |-> ReconnectMaxStrokes,
                 maxPoints |-> ReconnectMaxPoints,
                 maxRestores |-> MaxDrops + 1, trace |-> TRUE]
RestoreLim == [layers |-> {"L3"}, canvases |-> {"c2"}, maxConns |-> DrawMaxConns,
               updates |-> {NullUpdate, MalformedUpdate},
               maxStrokes |-> RestoreMaxStrokes, maxPoints |-> RestoreMaxPoints,
               maxRestores |-> MaxRestores, trace |-> TRUE]

Bounded(lim, st) ==
  /\ Len(st.conns) <= lim.maxConns
  /\ Len(st.jobs) <= MaxJobs
  /\ Len(st.performanceWarnings) <= MaxWarnings
  /\ \A i \in DOMAIN st.conns :
       /\ Len(st.conns[i].strokes) <= lim.maxStrokes
       /\ st.conns[i].replaced <= lim.maxRestores
       /\ \A k \in DOMAIN st.conns[i].strokes :
            Len(st.conns[i].strokes[k].points) <= lim.maxPoints

\* One handler run to completion: the store it leaves, and what ran.
Step(lim, next, call) ==
  /\ Bounded(lim, next)
  /\ Commit(next)
  /\ lastCall' = IF lim.trace THEN call ELSE lastCall
  /\ UNCHANGED <<peers, wire>>

\* ----------------------------------------------------------------- actions
\* useSocketStore.connect(token) / its "disconnect" handler.
Login(lim) ==
  /\ ~token
  /\ Step(lim, [Cur EXCEPT !.token = TRUE], [op |-> "login"])

Logout(lim) ==
  /\ token
  /\ Step(lim, [Cur EXCEPT !.token = FALSE], [op |-> "logout"])

CallConnectToCanvas(lim, canvasId) ==
  Step(lim, ConnectToCanvas(Cur, canvasId),
       [op |-> "connectToCanvas", canvasId |-> canvasId])

CallDisconnectFromCanvas(lim) ==
  Step(lim, DisconnectFromCanvas(Cur), [op |-> "disconnectFromCanvas"])

CallConnectToLayer(lim, layerId) ==
  Step(lim, ConnectToLayer(Cur, layerId),
       [op |-> "connectToLayer", layerId |-> layerId])

CallDisconnectFromLayer(lim, layerId) ==
  Step(lim, DisconnectFromLayer(Cur, layerId),
       [op |-> "disconnectFromLayer", layerId |-> layerId])

SocketConnect(lim, i) ==
  /\ conns[i].sock = "opening"
  /\ Step(lim, OnSocketConnect(Cur, i), [op |-> "connect", conn |-> i])

SocketConnectError(lim, i) ==
  /\ conns[i].sock = "opening"
  /\ Step(lim, Reject(Cur, i), [op |-> "connect_error", conn |-> i])

\* setTimeout(() => reject(new Error("Connection timeout")), 10000)
ActivationTimeout(lim, i) ==
  /\ conns[i].timer = 0
  /\ Step(lim, Reject(Cur, i), [op |-> "timeout", conn |-> i])

LayerDataResponse(lim, i, docUpdate) ==
  /\ conns[i].sock = "connected"
  /\ conns[i].awaiting
  /\ Step(lim, OnLayerData(Cur, i, docUpdate),
          [op |-> "layerData", conn |-> i, kind |-> docUpdate.kind])

\* The relay socket of connection i loses its transport; each connection
\* reconnects at most MaxDrops times.
SocketDrop(lim, i) ==
  /\ conns[i].sock = "connected"
  /\ conns[i].listeners <= MaxDrops
  /\ Step(lim, OnTransportClose(Cur, i), [op |-> "drop", conn |-> i])

\* socket.on("performance-warning", ...): every registered handler runs.
RECURSIVE OnPerformanceWarning(_, _, _)
OnPerformanceWarning(st, warning, n) ==
  IF n = 0 THEN st
  ELSE OnPerformanceWarning(HandlePerformanceWarning(st, warning), warning, n - 1)

PerformanceWarning(lim, i, layerId, dataSizeMB) ==
  /\ conns[i].sock = "connected"
  /\ conns[i].listeners > 0
  /\ Step(lim,
          OnPerformanceWarning(Cur, [layerId |-> layerId, dataSizeMB |-> dataSizeMB],
                               conns[i].listeners),
          [op |-> "performance-warning", layerId |-> layerId,
           dataSizeMB |-> dataSizeMB])

CallHideLayer(lim, layerId) ==
  Step(lim, HideLayerForPerformance(Cur, layerId),
       [op |-> "hideLayer", layerId |-> layerId])

CallShowLayer(lim, layerId) ==
  /\ layerId \in hiddenLayers
  /\ Step(lim, ShowLayerForPerformance(Cur, layerId),
          [op |-> "showLayer", layerId |-> layerId])

CallClearWarnings(lim) ==
  /\ performanceWarnings # <<>>
  /\ Step(lim, ClearPerformanceWarnings(Cur), [op |-> "clearWarnings"])

\* setTimeout(() => get().forceRerender(), ...)
RerenderTimeout(lim) ==
  /\ rerenderTimers > 0
  /\ Step(lim, ForceRerender([Cur EXCEPT !.rerenderTimers = @ - 1]),
          [op |-> "rerender"])

\* The payloads handed over so far: loaded, stored or waiting.
RECURSIVE LoadsDone(_)
LoadsDone(cs) == IF cs = <<>> THEN 0 ELSE Head(cs).loads + LoadsDone(Tail(cs))

PayloadsGiven ==
  LoadsDone(conns) + Cardinality(DOMAIN pendingLayerData) + Len(loaders)

CallStoreLayerData(lim, layerId) ==
  /\ PayloadsGiven < MaxLoads
  /\ Step(lim, StoreLayerDataForLater(Cur, layerId, <<B1>>),
          [op |-> "storeLayerData", layerId |-> layerId])

\* PerformanceOptimizationPanel: yjsStore.loadLayerDataFromJson(layerId, layerData)
CallLoadLayerDataFromJson(lim, layerId) ==
  /\ PayloadsGiven < MaxLoads
  /\ Step(lim, LoadLayerDataFromJson(Cur, layerId, <<B1>>),
          [op |-> "loadLayerDataFromJson", layerId |-> layerId])

\* The 500 ms timer of a waiting loadLayerDataFromJson call fires.
PollTimeout(lim, k) ==
  /\ k \in DOMAIN loaders
  /\ Step(lim, RetryLoadData(Cur, k),
          [op |-> "tryLoadData", layerId |-> loaders[k].layerId])

\* History of the drawing calls made on a layer that has a session: a
\* beginStroke opens a stroke, an appendPoint continues the open one. The
\* history is kept only for documents whose strokes all come from such calls.
NoteStart(st, layerId, x, y) ==
  IF layerId \notin DOMAIN st.layerStates THEN st
  ELSE IF st.conns[st.layerStates[layerId]].foreign THEN st
  ELSE [st EXCEPT !.conns[st.layerStates[layerId]].drawn = Append(@, <<<<x, y>>>>)]

NoteAppend(st, layerId, x, y) ==
  IF layerId \notin DOMAIN st.layerStates THEN st
  ELSE LET i == st.layerStates[layerId]
           n == Len(st.conns[i].drawn)
       IN IF n = 0 \/ st.conns[i].foreign THEN st
          ELSE [st EXCEPT !.conns[i].drawn[n] = Append(@, <<x, y>>)]

CallStartStroke(lim, layerId, x, y) ==
  Step(lim,
       NoteStart(StartStroke(Cur, layerId, x, y, DEFAULT_PRESSURE, DEFAULT_COLOR,
                             DEFAULT_SIZE), layerId, x, y),
       [op |-> "startStroke", layerId |-> layerId])

CallAddPointToStroke(lim, layerId, x, y) ==
  Step(lim,
       NoteAppend(AddPointToStroke(Cur, layerId, x, y, DEFAULT_PRESSURE), layerId, x, y),
       [op |-> "addPointToStroke", layerId |-> layerId])

CallEndStroke(lim) ==
  Step(lim, EndStroke(Cur), [op |-> "endStroke"])

LayerDataRestored(lim, i, payload) ==
  /\ conns[i].sock = "connected"
  /\ conns[i].listeners > 0
  /\ Step(lim, OnLayerDataRestored(Cur, i, payload, conns[i].listeners),
          [op |-> "layer-data-restored", conn |-> i, kind |-> payload.kind])

\* The debounce timer of connection i expires.
SaveTimerExpire(lim, i) ==
  /\ conns[i].saveTimer = 0
  /\ Step(lim, [Cur EXCEPT !.conns[i] = DebounceExpire(@)],
          [op |-> "saveTimer", conn |-> i])

\* layerState.debouncedSave.flush() on the session of layerId.
CallFlush(lim, layerId) ==
  /\ layerId \in DOMAIN layerStates
  /\ Step(lim, [Cur EXCEPT !.conns[layerStates[layerId]] = DebounceFlush(@)],
          [op |-> "flush", layerId |-> layerId])

\* One second passes.  A timer that is due fires first.
TickConn(c) ==
  [c EXCEPT !.timer = IF @ > 0 THEN @ - 1 ELSE @,
            !.saveTimer = IF @ > 0 THEN @ - 1 ELSE @,
            !.sinceUpdate = IF c.saveTimer > 0 THEN @ + 1 ELSE @]

Tick(lim) ==
  /\ \A i \in DOMAIN conns : conns[i].timer # 0 /\ conns[i].saveTimer # 0
  /\ \E i \in DOMAIN conns : TickConn(conns[i]) # conns[i]
  /\ Step(lim, [Cur EXCEPT !.conns = [i \in DOMAIN conns |-> TickConn(conns[i])]],
          [op |-> "tick"])

\* ----------------------------------------------------------- specifications
\* The session lifecycle: the two layers of one canvas, up to MaxConns connections.
Next ==
  \/ Login(LifeLim)
  \/ \E canvasId \in LifeLim.canvases : CallConnectToCanvas(LifeLim, canvasId)
  \/ CallDisconnectFromCanvas(LifeLim)
  \/ \E layerId \in LifeLim.layers : CallConnectToLayer(LifeLim, layerId)
  \/ \E layerId \in LifeLim.layers : CallDisconnectFromLayer(LifeLim, layerId)
  \/ \E i \in DOMAIN conns : SocketConnect(LifeLim, i)
  \/ \E i \in DOMAIN conns : SocketConnectError(LifeLim, i)
  \/ \E i \in DOMAIN conns : ActivationTimeout(LifeLim, i)
  \/ \E i \in DOMAIN conns, u \in LifeLim.updates : LayerDataResponse(LifeLim, i, u)
  \/ RerenderTimeout(LifeLim)
  \/ Tick(LifeLim)

Spec == Init /\ [][Next]_vars


\* Drawing on one layer: a single connection, activated before its timeout,
\* with its document, awareness field and debouncer.
NextDraw ==
  \/ Login(DrawLim)
  \/ \E canvasId \in DrawLim.canvases : CallConnectToCanvas(DrawLim, canvasId)
  \/ \E layerId \in DrawLim.layers : CallDisconnectFromLayer(DrawLim, layerId)
  \/ \E i \in DOMAIN conns : SocketConnect(DrawLim, i)
  \/ \E i \in DOMAIN conns, u \in DrawLim.updates : LayerDataResponse(DrawLim, i, u)
  \/ \E layerId \in DrawLim.layers, p \in Points :
       CallStartStroke(DrawLim, layerId, p[1], p[2])
  \/ \E layerId \in DrawLim.layers, p \in Points :
       CallAddPointToStroke(DrawLim, layerId, p[1], p[2])
  \/ CallEndStroke(DrawLim)
  \/ \E i \in DOMAIN conns : SaveTimerExpire(DrawLim, i)
  \/ \E layerId \in DrawLim.layers : CallFlush(DrawLim, layerId)
  \/ Tick(DrawLim)

SpecDraw == Init /\ [][NextDraw]_vars


\* Version restores on one layer's session, up to the moment the re-render
\* timeouts fire.
NextRestore ==
  \/ Login(RestoreLim)
  \/ \E canvasId \in RestoreLim.canvases : CallConnectToCanvas(RestoreLim, canvasId)
  \/ \E layerId \in RestoreLim.layers : CallDisconnectFromLayer(RestoreLim, layerId)
  \/ \E i \in DOMAIN conns : SocketConnect(RestoreLim, i)
  \/ \E i \in DOMAIN conns, u \in RestoreLim.updates :
       LayerDataResponse(RestoreLim, i, u)
  \/ \E layerId \in RestoreLim.layers, p \in Points :
       CallStartStroke(RestoreLim, layerId, p[1], p[2])
  \/ \E layerId \in RestoreLim.layers, p \in Points :
       CallAddPointToStroke(RestoreLim, layerId, p[1], p[2])
  \/ \E i \in DOMAIN conns, u \in {SnapshotUpdate, MalformedUpdate} :
       LayerDataRestored(RestoreLim, i, u)
  \/ \E i \in DOMAIN conns : SaveTimerExpire(RestoreLim, i)
  \/ Tick(RestoreLim)

SpecRestore == Init /\ [][NextRestore]_vars


\* ------------------------------------------------------------- replication
\* The document of one layer as Yjs keeps it in each client: the "strokes"
\* Y.Array is a list of items, each with the id (client, clock) of its writer
\* and the id of the item it was appended after (its origin; NoId at the
\* head).  strokes.push([stroke]) appends after the last item; an update
\* carries items, and Y.applyUpdate integrates each by the YATA rule.
Clients == {1, 2}
Transports == {"relay", "peer"}
NoId == <<0, 0>>

ItemIds(items) == {items[k].id : k \in DOMAIN items}

\* index of the item with this id; 0 for NoId
PosOf(items, id) ==
  IF id = NoId THEN 0 ELSE CHOOSE k \in DOMAIN items : items[k].id = id

InsertAfter(items, left, item) ==
  [k \in 1..(Len(items) + 1) |->
     IF k <= left THEN items[k]
     ELSE IF k = left + 1 THEN item
     ELSE items[k - 1]]

\* Item.integrate's conflict loop: o scans right of the origin; left is where
\* the item will go.
RECURSIVE ScanConflicts(_, _, _, _, _, _)
ScanConflicts(items, item, o, left, before, conflicting) ==
  IF o > Len(items) THEN left
  ELSE LET other == items[o]
           before2 == before \cup {o}
           conflicting2 == conflicting \cup {o}
       IN IF other.origin = item.origin
          THEN IF other.id[1] < item.id[1]
               THEN ScanConflicts(items, item, o + 1, o, before2, {})
               ELSE left
          ELSE IF other.origin # NoId /\ PosOf(items, other.origin) \in before2
               THEN IF PosOf(items, other.origin) \notin conflicting2
                    THEN ScanConflicts(items, item, o + 1, o, before2, {})
                    ELSE ScanConflicts(items, item, o + 1, left, before2, conflicting2)
               ELSE left

\* An integration that ignores the conflict rule and appends.
YIntegrateAtEnd(items, item) == Append(items, item)

YIntegrate(items, item) ==
  LET p == PosOf(items, item.origin)
  IN InsertAfter(items, ScanConflicts(items, item, p + 1, p, {}, {}), item)

\* An item can be integrated once its origin and its writer's earlier items are here.
Integrable(items, item) ==
  /\ item.origin = NoId \/ item.origin \in ItemIds(items)
  /\ \A n \in 1..(item.id[2] - 1) : <<item.id[1], n>> \in ItemIds(items)

\* Items that waited for a missing dependency are retried.
RECURSIVE DrainPending(_)
DrainPending(doc) ==
  LET ready == {it \in doc.pending : Integrable(doc.items, it)}
  IN IF ready = {} THEN doc
     ELSE LET it == CHOOSE x \in ready : TRUE
          IN DrainPending([doc EXCEPT !.items = YIntegrate(@, it),
                                      !.pending = @ \ {it}])

\* An applyUpdate that integrates an item whether or not the document has it.
YApplyItemAgain(doc, item) ==
  DrainPending([doc EXCEPT !.pending = @ \cup {item}])

\* Y.applyUpdate(doc, update) for an update carrying one item: known items are
\* skipped, items with a missing dependency wait.
YApplyItem(doc, item) ==
  IF item.id \in ItemIds(doc.items) THEN doc
  ELSE DrainPending([doc EXCEPT !.pending = @ \cup {item}])

\* startStroke in client r: the new stroke is pushed to the end of the array and
\* the update goes out to every other client over both providers.  Client r
\* draws its n-th stroke at (10r, 10n), so all strokes differ.
PeerStartStroke(r) ==
  LET doc == peers[r]
      x == 10 * r
      y == 10 * (doc.clock + 1)
      newStroke == [points |-> <<Point(x, y, DEFAULT_PRESSURE)>>,
                    color |-> DEFAULT_COLOR, size |-> DEFAULT_SIZE, stamped |-> FALSE]
      item == [id |-> <<r, doc.clock + 1>>,
               origin |-> IF doc.items = <<>> THEN NoId
                          ELSE doc.items[Len(doc.items)].id,
               content |-> newStroke]
  IN /\ doc.clock < MaxLocal
     /\ peers' = [peers EXCEPT ![r] = [doc EXCEPT !.items = Append(@, item),
                                                  !.clock = @ + 1]]
     /\ wire' = wire \cup {[to |-> q, via |-> t, item |-> item] :
                             q \in Clients \ {r}, t \in Transports}
     /\ UNCHANGED <<yjsStatus, currentCanvasId, layerStates, connectingLayers,
                    pendingLayerData, performanceWarnings, hiddenLayers,
                    forceUpdate, token, conns, jobs, rerenderTimers, loaders,
                    lastCall>>

\* One update arrives at its receiver over one of the two transports.
PeerReceive(m) ==
  /\ m \in wire
  /\ "item" \in DOMAIN m
  /\ peers' = [peers EXCEPT ![m.to] = YApplyItem(@, m.item)]
  /\ wire' = wire \ {m}
  /\ UNCHANGED <<yjsStatus, currentCanvasId, layerStates, connectingLayers,
                 pendingLayerData, performanceWarnings, hiddenLayers,
                 forceUpdate, token, conns, jobs, rerenderTimers, loaders,
                    lastCall>>

\* The items of a list that are not deleted, in list order.
RECURSIVE Visible(_, _)
Visible(items, deleted) ==
  IF items = <<>> THEN <<>>
  ELSE IF Head(items).id \in deleted THEN Visible(Tail(items), deleted)
  ELSE <<Head(items)>> \o Visible(Tail(items), deleted)

\* doc.getArray("strokes").toJSON()
PeerStrokes(r) ==
  LET live == Visible(peers[r].items, peers[r].deleted)
  IN [k \in DOMAIN live |-> live[k].content]

\* strokes.push([stroke]) in client doc: the item goes after the last item of
\* the list, deleted or not.
PeerPush(doc, r, stroke) ==
  [doc EXCEPT !.items = Append(@, [id |-> <<r, doc.clock + 1>>,
                                   origin |-> IF doc.items = <<>> THEN NoId
                                              ELSE doc.items[Len(doc.items)].id,
                                   content |-> stroke]),
              !.clock = @ + 1]

RECURSIVE PeerPushAll(_, _, _)
PeerPushAll(doc, r, strokes) ==
  IF strokes = <<>> THEN doc
  ELSE PeerPushAll(PeerPush(doc, r, Head(strokes)), r, Tail(strokes))

\* The layer-data-restored handler (lines 306-340) in client r, on the
\* replicated document: every stroke the client sees is deleted, then a copy of
\* each restored stroke is pushed as a new item of client r.  The deletion and
\* each push are updates of their own, sent to the other clients over both
\* providers.
PeerRestore(r, restoredStrokes) ==
  LET doc == peers[r]
      seen == ItemIds(Visible(doc.items, doc.deleted))
      emptied == [doc EXCEPT !.deleted = @ \cup seen]
      filled == [PeerPushAll(emptied, r, restoredStrokes) EXCEPT !.restores = @ + 1]
      added == {filled.items[k] : k \in (Len(doc.items) + 1)..Len(filled.items)}
  IN /\ doc.restores < MaxPeerRestores
     /\ peers' = [peers EXCEPT ![r] = filled]
     /\ wire' = wire
          \cup {[to |-> q, via |-> t, item |-> it] :
                  q \in Clients \ {r}, t \in Transports, it \in added}
          \cup {[to |-> q, via |-> t, del |-> seen] :
                  q \in IF seen = {} THEN {} ELSE Clients \ {r}, t \in Transports}
     /\ UNCHANGED <<yjsStatus, currentCanvasId, layerStates, connectingLayers,
                    pendingLayerData, performanceWarnings, hiddenLayers,
                    forceUpdate, token, conns, jobs, rerenderTimers, loaders,
                    lastCall>>

\* A deletion arrives at its receiver: the items it names are deleted, those
\* not yet received as soon as they arrive.
PeerReceiveDelete(m) ==
  /\ m \in wire
  /\ "del" \in DOMAIN m
  /\ peers' = [peers EXCEPT ![m.to].deleted = @ \cup m.del]
  /\ wire' = wire \ {m}
  /\ UNCHANGED <<yjsStatus, currentCanvasId, layerStates, connectingLayers,
                 pendingLayerData, performanceWarnings, hiddenLayers,
                 forceUpdate, token, conns, jobs, rerenderTimers, loaders,
                 lastCall>>

NextSync ==
  \/ \E r \in Clients : PeerStartStroke(r)
  \/ \E m \in wire : PeerReceive(m)

SpecSync == Init /\ [][NextSync]_vars

\* One version-restore event delivered to every client of the layer, on a
\* document the clients may have drawn on before.
NextRestoreSync ==
  \/ \E r \in Clients :
       /\ \A q \in Clients : peers[q].restores = 0
       /\ peers[r].clock < MaxDrawnBefore
       /\ PeerStartStroke(r)
  \/ \E r \in Clients : PeerRestore(r, SnapshotUpdate.strokes)
  \/ \E m \in wire : PeerReceive(m)
  \/ \E m \in wire : PeerReceiveDelete(m)

SpecRestoreSync == Init /\ [][NextRestoreSync]_vars


\* The performance governor on one layer: size warnings, hiding and showing,
\* re-activation by the caller.
NextGov ==
  \/ Login(GovLim)
  \/ \E canvasId \in GovLim.canvases : CallConnectToCanvas(GovLim, canvasId)
  \/ \E layerId \in GovLim.layers : CallConnectToLayer(GovLim, layerId)
  \/ \E i \in DOMAIN conns : SocketConnect(GovLim, i)
  \/ \E i \in DOMAIN conns, u \in GovLim.updates : LayerDataResponse(GovLim, i, u)
  \/ \E i \in DOMAIN conns, layerId \in GovLim.layers \cup {"L1"}, size \in SizeStrings :
       PerformanceWarning(GovLim, i, layerId, size)
  \/ \E layerId \in GovLim.layers : CallHideLayer(GovLim, layerId)
  \/ \E layerId \in GovLim.layers : CallShowLayer(GovLim, layerId)
  \/ CallClearWarnings(GovLim)

SpecGov == Init /\ [][NextGov]_vars


\* One session whose relay socket drops and reconnects, with drawing, size
\* warnings and version restores on it.
NextReconnect ==
  \/ Login(ReconnectLim)
  \/ \E canvasId \in ReconnectLim.canvases : CallConnectToCanvas(ReconnectLim, canvasId)
  \/ \E i \in DOMAIN conns : SocketConnect(ReconnectLim, i)
  \/ \E i \in DOMAIN conns : SocketDrop(ReconnectLim, i)
  \/ \E i \in DOMAIN conns, u \in ReconnectLim.updates :
       LayerDataResponse(ReconnectLim, i, u)
  \/ \E i \in DOMAIN conns, layerId \in ReconnectLim.layers :
       PerformanceWarning(ReconnectLim, i, layerId, "99.99")
  \/ \E i \in DOMAIN conns : LayerDataRestored(ReconnectLim, i, SnapshotUpdate)
  \/ \E layerId \in ReconnectLim.layers, p \in Points :
       CallStartStroke(ReconnectLim, layerId, p[1], p[2])
  \/ \E layerId \in ReconnectLim.layers, p \in Points :
       CallAddPointToStroke(ReconnectLim, layerId, p[1], p[2])
  \/ \E i \in DOMAIN conns : SaveTimerExpire(ReconnectLim, i)
  \/ Tick(ReconnectLim)

SpecReconnect == Init /\ [][NextReconnect]_vars


\* Payloads handed to the store for a layer: stored until its session exists
\* (storeLayerDataForLater) or loaded by polling (loadLayerDataFromJson), with
\* the layer activated, deactivated and activated again.
NextLoad ==
  \/ Login(LoadLim)
  \/ \E canvasId \in LoadLim.canvases : CallConnectToCanvas(LoadLim, canvasId)
  \/ \E layerId \in LoadLim.layers : CallConnectToLayer(LoadLim, layerId)
  \/ \E layerId \in LoadLim.layers : CallDisconnectFromLayer(LoadLim, layerId)
  \/ \E i \in DOMAIN conns : SocketConnect(LoadLim, i)
  \/ \E i \in DOMAIN conns, u \in LoadLim.updates : LayerDataResponse(LoadLim, i, u)
  \/ \E layerId \in LoadLim.layers \cup {"L1"} : CallStoreLayerData(LoadLim, layerId)
  \/ \E layerId \in LoadLim.layers : CallLoadLayerDataFromJson(LoadLim, layerId)
  \/ \E k \in DOMAIN loaders : PollTimeout(LoadLim, k)

SpecLoad == Init /\ [][NextLoad]_vars

\* The same with the timers of the waiting calls firing: a timer that is armed
\* fires.
SpecLoadFair ==
  SpecLoad /\ \A k \in 1..MaxLoads : WF_vars(PollTimeout(LoadLim, k))


\* =================================================================== claims
\* The store apart from the history variable lastCall.
store == <<yjsStatus, currentCanvasId, layerStates, connectingLayers,
           pendingLayerData, performanceWarnings, hiddenLayers, forceUpdate,
           token, conns, jobs, rerenderTimers, loaders>>

\* The activations of layerId whose promise is still pending.
InFlight(layerId) ==
  {i \in DOMAIN conns : conns[i].layerId = layerId /\ conns[i].promise = "pending"}

\* C1: connectToLayer on a layer that has a session, or an activation of which
\* is in flight, changes nothing: no second socket, document or request.
C1_DuplicateActivationIsNoOp ==
  [][(/\ lastCall'.op = "connectToLayer"
      /\ \/ lastCall'.layerId \in DOMAIN layerStates
         \/ InFlight(lastCall'.layerId) # {})
     => UNCHANGED store]_vars

\* The ids of every stroke item that some client has created.
Created == {id \in Clients \X (1..MaxLocal) : id[2] <= peers[id[1]].clock}

\* C2: two replicas that have integrated the same set of updates, delivered in
\* any order and any number of times, hold the same stroke list; once nothing
\* is in flight every replica has integrated every update, so all are equal.
C2_ReplicasConverge ==
  /\ \A r1, r2 \in Clients :
       (/\ ItemIds(peers[r1].items) = ItemIds(peers[r2].items)
        /\ peers[r1].pending = {} /\ peers[r2].pending = {})
       => PeerStrokes(r1) = PeerStrokes(r2)
  /\ wire = {} =>
       \A r \in Clients :
         /\ peers[r].pending = {}
         /\ ItemIds(peers[r].items) = Created
         /\ Len(peers[r].items) = Cardinality(Created)

\* C2 witness: both clients appended a stroke to the empty list before seeing
\* the other's, every update has been delivered, and the lists agree.
C2_Witness ==
  /\ wire = {}
  /\ \A r \in Clients :
       /\ Len(peers[r].items) = 2
       /\ \A k \in 1..2 : peers[r].items[k].origin = NoId
  /\ PeerStrokes(1) = PeerStrokes(2)

\* The points of each stroke as coordinate pairs.
Coordinates(strokes) ==
  [k \in DOMAIN strokes |->
     [n \in DOMAIN strokes[k].points |->
        <<strokes[k].points[n].x, strokes[k].points[n].y>>]]

\* C3: in a document that only the local drawing calls have written, every
\* startStroke has added exactly one stroke that holds its point followed by
\* the points of the addPointToStroke calls since, in call order, with the
\* colour and size given; after endStroke the draft stroke of every session is
\* null.
C3_StrokeHoldsItsPoints ==
  /\ \A i \in DOMAIN conns :
       ~conns[i].foreign =>
         /\ Coordinates(conns[i].strokes) = conns[i].drawn
         /\ \A k \in DOMAIN conns[i].strokes :
              /\ conns[i].strokes[k].color = DEFAULT_COLOR
              /\ conns[i].strokes[k].size = DEFAULT_SIZE
              /\ \A n \in DOMAIN conns[i].strokes[k].points :
                   conns[i].strokes[k].points[n].pressure = DEFAULT_PRESSURE
  /\ lastCall.op = "endStroke" =>
       \A layerId \in DOMAIN layerStates :
         conns[layerStates[layerId]].drawingStroke = <<>>

\* C3 witness: startStroke(10, 10), addPointToStroke(20, 20), endStroke on an
\* empty document left one stroke with the two points and no draft stroke.
C3_Witness ==
  /\ lastCall.op = "endStroke"
  /\ \E i \in Range(layerStates) :
       /\ ~conns[i].foreign
       /\ Coordinates(conns[i].strokes) = << << <<10, 10>>, <<20, 20>> >> >>
       /\ conns[i].drawingStroke = <<>>


C5_SecondRestoreIgnored ==
  [][(/\ lastCall.op = "layer-data-restored" /\ lastCall.kind = "update"
      /\ lastCall'.op = "layer-data-restored" /\ lastCall'.kind = "update"
      /\ lastCall'.conn = lastCall.conn)
     => /\ conns'[lastCall.conn].replaced = conns[lastCall.conn].replaced
        /\ conns'[lastCall.conn].strokes = conns[lastCall.conn].strokes
        /\ conns'[lastCall.conn].saveTimer = conns[lastCall.conn].saveTimer]_vars

\* The size strings above the automatic-hide threshold of 100 MB.
OverThreshold == {"100.01", "250.5"}

C7_FailedActivationReleased ==
  \A i \in DOMAIN conns :
    conns[i].promise = "rejected" =>
      /\ conns[i].sock = "closed"
      /\ i \notin Range(layerStates)

\* C8: disconnectFromLayer(L) and disconnectFromCanvas abort the activation of
\* L that is in flight: its socket is closed and its document destroyed.
C8_DeactivateAbortsActivation ==
  [][\A i \in DOMAIN conns :
       (/\ conns[i].promise = "pending"
        /\ \/ lastCall'.op = "disconnectFromCanvas"
           \/ /\ lastCall'.op = "disconnectFromLayer"
              /\ lastCall'.layerId = conns[i].layerId)
       => /\ conns'[i].sock = "closed"
          /\ conns'[i].ydoc = "destroyed"]_vars

C10_RegistryHoldsLiveSessions ==
  \A layerId \in DOMAIN layerStates :
    LET c == conns[layerStates[layerId]]
    IN /\ c.ydoc = "live"
       /\ c.providers = "live"
       /\ c.sock # "closed"


\* The layers of a canvas as a set; no layers while no canvas is open.
LayersOf(canvasId) ==
  IF canvasId = NoCanvas THEN {}
  ELSE {CanvasLayers(canvasId)[k] : k \in DOMAIN CanvasLayers(canvasId)}

\* C11: every layer with a session in the registry belongs to the canvas that
\* is open; the registry is empty while no canvas is open.
C11_RegistryWithinOpenCanvas ==
  DOMAIN layerStates \subseteq LayersOf(currentCanvasId)


\* The session that a layer-data-restored event on connection i acts on: the
\* registry entry of the connection's layer, if there is one.
RestoreTargets(i) ==
  IF conns[i].layerId \in DOMAIN layerStates
  THEN {layerStates[conns[i].layerId]} ELSE {}

\* C12: a layer-data-restored event carrying data, handled while a save is
\* pending for the layer's session, leaves no save pending for it.
C12_RestoreDropsPendingSave ==
  [][\A i \in DOMAIN conns : \A k \in RestoreTargets(i) :
       (/\ lastCall'.op = "layer-data-restored"
        /\ lastCall'.conn = i
        /\ lastCall'.kind # "null"
        /\ conns[k].saveTimer >= 0)
       => conns'[k].saveTimer = -1]_vars


\* The strokes performDataLoad leaves in a document for a stored payload.
LoadedStrokes(brushStrokes) ==
  [k \in DOMAIN brushStrokes |-> ToYStroke(brushStrokes[k])]

\* C13: when the session of a layer is created, the payload stored for the
\* layer, if there is one, replaces the document's strokes, once, and the
\* layer's entry leaves the pending map, the other entries staying; without an
\* entry nothing is loaded.  Entries leave the map at no other moment.
C13_PendingDataConsumedOnce ==
  /\ [][\A i \in DOMAIN conns :
          (lastCall'.op = "layerData" /\ lastCall'.conn = i) =>
            LET layerId == conns[i].layerId
            IN IF layerId \in DOMAIN pendingLayerData
               THEN /\ conns'[i].loads = conns[i].loads + 1
                    /\ conns'[i].strokes = LoadedStrokes(pendingLayerData[layerId])
                    /\ pendingLayerData' = MapDelete(pendingLayerData, layerId)
               ELSE /\ conns'[i].loads = conns[i].loads
                    /\ pendingLayerData' = pendingLayerData]_vars
  /\ [][pendingLayerData' # pendingLayerData =>
          lastCall'.op \in {"layerData", "storeLayerData"}]_vars

\* C13 witness: L3 was activated with a stored payload, deactivated and
\* activated again; the first session loaded the payload, the second did
\* not, and the payload stored for L1 is still there.
C13_Witness ==
  /\ DOMAIN pendingLayerData = {"L1"}
  /\ \E i, j \in DOMAIN conns :
       /\ i < j
       /\ conns[i].layerId = "L3" /\ conns[j].layerId = "L3"
       /\ conns[i].loads = 1
       /\ conns[i].ydoc = "destroyed"
       /\ conns[j].promise = "resolved"
       /\ conns[j].loads = 0
       /\ conns[j].strokes = <<>>


\* C19: a loadLayerDataFromJson call that waits for a session stops waiting
\* also when no session ever exists.
C19_PollingStops ==
  [](layerStates = EmptyMap) => ((loaders # <<>>) ~> (loaders = <<>>))

\* C14: startStroke and addPointToStroke on a layer without a session, and
\* addPointToStroke on a session whose stroke list is empty, change nothing.
C14_StrokeOpsWithoutTargetAreNoOps ==
  [][(/\ lastCall'.op \in {"startStroke", "addPointToStroke"}
      /\ \/ lastCall'.layerId \notin DOMAIN layerStates
         \/ /\ lastCall'.op = "addPointToStroke"
            /\ conns[layerStates[lastCall'.layerId]].strokes = <<>>)
     => UNCHANGED store]_vars

\* C14 witness: addPointToStroke was called on the session of L3 while its
\* stroke list was empty, and the session has neither stroke nor pending save.
C14_Witness ==
  /\ lastCall = [op |-> "addPointToStroke", layerId |-> "L3"]
  /\ "L3" \in DOMAIN layerStates
  /\ conns[layerStates["L3"]].strokes = <<>>
  /\ conns[layerStates["L3"]].saveTimer = -1
  /\ conns[layerStates["L3"]].drawingStroke = <<>>

C16_CommittedStrokeImmutable ==
  [][(lastCall.op = "endStroke" /\ lastCall'.op = "addPointToStroke")
     => \A i \in DOMAIN conns : conns'[i].strokes = conns[i].strokes]_vars


\* C17: when the activation of a layer of the open canvas fails by connect
\* error or timeout, the status shown to the UI is "error".
C17_FailedActivationShowsError ==
  [][\A i \in DOMAIN conns :
       (/\ lastCall'.op \in {"connect_error", "timeout"}
        /\ lastCall'.conn = i
        /\ conns[i].promise = "pending"
        /\ conns[i].layerId \in LayersOf(currentCanvasId))
       => yjsStatus' = "error"]_vars


\* The connections whose document a payload received on connection i is
\* meant for: the connection's own document for the initial snapshot, the
\* registry session of its layer for a restored version.
PayloadTargets(i, op) ==
  IF op = "layerData" THEN {i} ELSE RestoreTargets(i)

\* C18: a malformed payload, initial snapshot or restored version, leaves the
\* stroke list of the document as it was and schedules no save.
C18_MalformedPayloadDropped ==
  [][\A i \in DOMAIN conns :
       (/\ lastCall'.op \in {"layerData", "layer-data-restored"}
        /\ lastCall'.kind = "malformed"
        /\ lastCall'.conn = i)
       => \A k \in PayloadTargets(i, lastCall'.op) :
            /\ conns'[k].strokes = conns[k].strokes
            /\ conns'[k].saveTimer = conns[k].saveTimer
            /\ conns'[k].ydoc = conns[k].ydoc]_vars


\* The layers whose session was torn down: an activation of theirs completed
\* and its document has been destroyed since.
TornDown ==
  {conns[i].layerId : i \in {k \in DOMAIN conns : /\ conns[k].promise = "resolved"
                                                  /\ conns[k].ydoc = "destroyed"}}

\* C20: showLayerForPerformance on a hidden layer whose session was torn down
\* leaves the layer not hidden and reactivated: it has a session or an
\* activation in flight.
C20_ShowLayerReactivates ==
  [][(lastCall'.op = "showLayer" /\ lastCall'.layerId \in TornDown) =>
       /\ lastCall'.layerId \notin hiddenLayers'
       /\ \/ lastCall'.layerId \in DOMAIN layerStates'
          \/ lastCall'.layerId \in connectingLayers']_vars

C22_RenderVersionAdvances ==
  [][/\ forceUpdate' >= forceUpdate
     /\ (/\ lastCall'.op \in {"startStroke", "addPointToStroke"}
         /\ \E i \in DOMAIN conns : conns'[i].strokes # conns[i].strokes)
        => forceUpdate' > forceUpdate]_vars


\* C23: every update event of a replace operation - a version restore or a
\* bulk load - shows the observers of the document (the providers, the
\* debouncer) the old stroke list or the complete new one, never the emptied
\* or a partly filled list.
C23_ReplaceShowsNoIntermediateState ==
  [][\A i \in DOMAIN conns :
       (\/ conns'[i].replaced > conns[i].replaced
        \/ conns'[i].loads > conns[i].loads)
       => \A k \in DOMAIN conns'[i].emitted :
            conns'[i].emitted[k] \in {conns[i].strokes, conns'[i].strokes}]_vars


\* C25: the completion of an activation changes the registry only by adding
\* the entry of its own layer.
C25_CompletionAddsOneEntry ==
  [][\A i \in DOMAIN conns :
       (lastCall'.op = "layerData" /\ lastCall'.conn = i)
       => layerStates' = MapSet(layerStates, conns[i].layerId, i)]_vars


\* C26: between startStroke and endStroke the draft of the session is the
\* stroke being drawn; a point appended then goes into that stroke and into
\* no other stroke of the document.
C26_PointsJoinOwnStroke ==
  [][\A i \in DOMAIN conns :
       (lastCall'.op = "addPointToStroke" /\ conns[i].drawingStroke # <<>>)
       => \A k \in DOMAIN conns[i].strokes :
            conns'[i].strokes[k] # conns[i].strokes[k]
            => conns[i].strokes[k] = conns[i].drawingStroke[1].stroke]_vars


\* C27: a layer is in connectingLayers only while an activation of it is in
\* flight, whose success, connect error or timeout removes it; a layer with no
\* activation in flight is not left in the set.
C27_ActivatingSetIsReleased ==
  \A layerId \in connectingLayers : InFlight(layerId) # {}


\* C28: for every connection the two server-event handlers are registered
\* once and the providers and the debouncer are constructed once, so one
\* size warning received adds one warning to the list.
C28_HandlersRegisteredOnce ==
  /\ [](\A i \in DOMAIN conns : conns[i].listeners <= 1 /\ conns[i].built <= 1)
  /\ [][lastCall'.op = "performance-warning"
        => Len(performanceWarnings') = Len(performanceWarnings) + 1]_vars

\* C29: while a session is in the registry, a document that only local
\* drawing calls have written and that differs from the last snapshot sent
\* has a save pending.
C29_UnsavedMutationHasSavePending ==
  \A i \in Range(layerStates) :
    (/\ ~conns[i].foreign
     /\ conns[i].ydoc = "live"
     /\ conns[i].strokes # conns[i].lastSaved)
    => conns[i].saveTimer >= 0


\* C30: no layer is both hidden for performance and in the session registry.
C30_HiddenLayerHasNoSession ==
  hiddenLayers \cap DOMAIN layerStates = {}


\* C24: once every client has handled the restore event and every update has
\* been delivered, the stroke list of every client is the restored snapshot's
\* list, each restored stroke once.
C24_RestoreConvergesToSnapshot ==
  (/\ wire = {}
   /\ \A r \in Clients : peers[r].restores = MaxPeerRestores /\ peers[r].pending = {})
  => \A r \in Clients : PeerStrokes(r) = SnapshotUpdate.strokes


====
